---- MODULE Spec2Model ----
(***************************************************************************)
(* Verification model of the tutorial code of learn-pytorch:               *)
(*   - text preprocessing: tokenize, count_corpus, Vocab                   *)
(*   - attention: masked_softmax, DotProductAttention, MLPAttention        *)
(*   - transposed convolution: trans_conv, kernel2matrix                   *)
(* Python lists are sequences (Python index i is TLA+ index i + 1);        *)
(* indices stored in the program's data keep their Python (0-based) value. *)
(***************************************************************************)
EXTENDS Integers, Sequences, FiniteSets, TLC

VARIABLES
    pc,                 \* position of the running notebook cell
    tokens,             \* Vocab.__init__ argument: list of token lists
    min_freq,           \* Vocab.__init__ argument
    use_special_tokens, \* Vocab.__init__ argument
    vocab,              \* the Vocab object's attributes
    arg,                \* argument of the last __getitem__ / to_tokens call
    result,             \* value returned (or exception raised) by that call
    frame               \* arguments, locals and return value of the function
                        \* a cell calls (tokenize, masked_softmax, forward, ...)

vars == <<pc, tokens, min_freq, use_special_tokens, vocab, arg, result, frame>>

(***************************************************************************)
(* Bounds of the model                                                     *)
(***************************************************************************)
MaxTokens == 3      \* total number of tokens in a corpus
MaxMinFreq == 2     \* largest min_freq tried
MaxQueryLen == 2    \* longest list passed to __getitem__ / to_tokens

(***************************************************************************)
(* Generic helpers                                                         *)
(***************************************************************************)
Range(s) == {s[i] : i \in 1..Len(s)}

RemoveAt(s, m) == [i \in 1..(Len(s) - 1) |-> IF i < m THEN s[i] ELSE s[i + 1]]

SeqsUpTo(S, n) == UNION {[1..k -> S] : k \in 0..n}

RECURSIVE SumSeq(_)
SumSeq(s) == IF s = <<>> THEN 0 ELSE Head(s) + SumSeq(Tail(s))

(***************************************************************************)
(* Strings.  Tokens are strings; Python orders them by code point, so      *)
(* '<' (60) sorts before the lower-case letters (97..).  StrOrder lists    *)
(* the strings of the model in ascending Python order.                     *)
(***************************************************************************)
StrOrder == <<"<bos>", "<eos>", "<pad>", "<unk>", "a", "b", "c">>

StrRank(s) == CHOOSE i \in 1..Len(StrOrder) : StrOrder[i] = s

CorpusTokens == {"<pad>", "<unk>", "a", "b"}

QueryTokens == CorpusTokens \cup {"c"}

(***************************************************************************)
(* sorted(items, key=...) and list.sort(key=...): a stable sort.  k is the *)
(* list of the keys of s, position by position.                            *)
(***************************************************************************)
RECURSIVE StableSort(_, _)
StableSort(s, k) ==
    IF s = <<>> THEN <<>>
    ELSE LET m == CHOOSE i \in 1..Len(s) :
                      \A j \in 1..Len(s) :
                          k[i] < k[j] \/ (k[i] = k[j] /\ i <= j)
         IN  <<s[m]>> \o StableSort(RemoveAt(s, m), RemoveAt(k, m))

(***************************************************************************)
(* count_corpus: flatten the sentences and count with collections.Counter  *)
(* (a dict: items in order of first occurrence, as <<token, count>>).      *)
(***************************************************************************)
RECURSIVE Flatten(_)
Flatten(sentences) ==
    IF sentences = <<>> THEN <<>>
    ELSE Head(sentences) \o Flatten(Tail(sentences))

CounterAdd(items, tk) ==
    IF \E i \in 1..Len(items) : items[i][1] = tk
    THEN [i \in 1..Len(items) |->
             IF items[i][1] = tk THEN <<tk, items[i][2] + 1>> ELSE items[i]]
    ELSE Append(items, <<tk, 1>>)

RECURSIVE Counter(_, _)
Counter(items, tks) ==
    IF tks = <<>> THEN items
    ELSE Counter(CounterAdd(items, Head(tks)), Tail(tks))

count_corpus(sentences) == Counter(<<>>, Flatten(sentences))

(***************************************************************************)
(* Vocab.__init__                                                          *)
(***************************************************************************)
\* Mutant: the items are left in the counter's order (first occurrence).
KeepCounterOrder(items) == items

\* sorted(counter.items(), key=lambda x: x[0])
SortedByToken(items) ==
    StableSort(items, [i \in 1..Len(items) |-> StrRank(items[i][1])])

\* Mutant: the frequency sort without reverse=True.
SortByFreqAscending(items) ==
    StableSort(items, [i \in 1..Len(items) |-> items[i][2]])

\* token_freqs.sort(key=lambda x: x[1], reverse=True)
SortByFreqReverse(items) ==
    StableSort(items, [i \in 1..Len(items) |-> 0 - items[i][2]])

TokenFreqs(sentences) ==
    SortByFreqReverse(SortedByToken(count_corpus(sentences)))

SpecialTokens(special) ==
    IF special THEN <<"<pad>", "<bos>", "<eos>", "<unk>">> ELSE <<"<unk>">>

\* self.pad, self.bos, self.eos, self.unk = (0, 1, 2, 3)  /  self.unk = 0
SpecialAttrs(special) ==
    IF special THEN [pad |-> 0, bos |-> 1, eos |-> 2, unk |-> 3]
    ELSE [unk |-> 0]

\* Mutant: a strict comparison with min_freq.
KeepStrict(item, minf, uniq) == item[2] > minf /\ item[1] \notin Range(uniq)

\* Mutant: the special-token strings of the corpus are not filtered out.
KeepAnyToken(item, minf, uniq) == item[2] >= minf

\* the filter of the list comprehension: freq >= min_freq and token not in uniq_tokens
Keep(item, minf, uniq) == item[2] >= minf /\ item[1] \notin Range(uniq)

RECURSIVE KeptTokens(_, _, _)
KeptTokens(freqs, minf, uniq) ==
    IF freqs = <<>> THEN <<>>
    ELSE (IF Keep(Head(freqs), minf, uniq) THEN <<Head(freqs)[1]>> ELSE <<>>)
         \o KeptTokens(Tail(freqs), minf, uniq)

\* uniq_tokens += [...]: the right-hand side is evaluated on the list of
\* special tokens before it is extended.
UniqTokens(freqs, minf, special) ==
    SpecialTokens(special) \o KeptTokens(freqs, minf, SpecialTokens(special))

\* one iteration of "for token in uniq_tokens": append, then set the dict entry
AddToken(v, token) ==
    LET i2t == Append(v.idx_to_token, token)
        idx == Len(i2t) - 1
    IN  [v EXCEPT !.idx_to_token = i2t,
                  !.token_to_idx =
                      [t \in (DOMAIN v.token_to_idx) \cup {token} |->
                          IF t = token THEN idx ELSE v.token_to_idx[t]]]

RECURSIVE AddTokens(_, _)
AddTokens(v, uniq) ==
    IF uniq = <<>> THEN v ELSE AddTokens(AddToken(v, Head(uniq)), Tail(uniq))

NoVocab ==
    [token_freqs |-> <<>>, attrs |-> [unk |-> 0],
     idx_to_token |-> <<>>, token_to_idx |-> <<>>]

NewVocab(sentences, minf, special) ==
    LET freqs == TokenFreqs(sentences)
    IN  AddTokens([token_freqs |-> freqs, attrs |-> SpecialAttrs(special),
                   idx_to_token |-> <<>>, token_to_idx |-> <<>>],
                  UniqTokens(freqs, minf, special))

\* Vocab.__len__
VocabLen(v) == Len(v.idx_to_token)

(***************************************************************************)
(* Vocab.__getitem__ and Vocab.to_tokens.  An argument is tagged with its  *)
(* Python type: [kind |-> "str" | "int" | "list", v |-> ...].              *)
(***************************************************************************)
\* Mutant: the default of dict.get is index 0 instead of self.unk.
DictGetZero(v, token) ==
    IF token \in DOMAIN v.token_to_idx THEN v.token_to_idx[token] ELSE 0

\* self.token_to_idx.get(tokens, self.unk)
DictGet(v, token) ==
    IF token \in DOMAIN v.token_to_idx THEN v.token_to_idx[token] ELSE v.attrs.unk

GetItem(v, q) ==
    IF q.kind # "list"
    THEN [raised |-> "none", kind |-> "int", v |-> DictGet(v, q.v)]
    ELSE [raised |-> "none", kind |-> "list",
          v |-> [i \in 1..Len(q.v) |-> DictGet(v, q.v[i])]]

\* list[index] of Python: negative indices count from the end.
InRange(s, i) == 0 - Len(s) <= i /\ i < Len(s)

PyIndex(s, i) == IF i >= 0 THEN s[i + 1] ELSE s[Len(s) + i + 1]

ToTokens(v, q) ==
    IF q.kind # "list"
    THEN IF InRange(v.idx_to_token, q.v)
         THEN [raised |-> "none", kind |-> "str", v |-> PyIndex(v.idx_to_token, q.v)]
         ELSE [raised |-> "IndexError"]
    ELSE IF \A i \in 1..Len(q.v) : InRange(v.idx_to_token, q.v[i])
         THEN [raised |-> "none", kind |-> "list",
               v |-> [i \in 1..Len(q.v) |-> PyIndex(v.idx_to_token, q.v[i])]]
         ELSE [raised |-> "IndexError"]

(***************************************************************************)
(* The vocabulary cells as a state machine                                 *)
(***************************************************************************)
Sentences == SeqsUpTo(CorpusTokens, MaxTokens)

\* a corpus of two sentences (either may be empty)
Corpora ==
    {c \in Sentences \X Sentences : Len(c[1]) + Len(c[2]) <= MaxTokens}

ListTokens == {"a", "c"}

ListArgs(S) == {[kind |-> "list", v |-> xs] : xs \in SeqsUpTo(S, MaxQueryLen)}

NoCall == [kind |-> "none"]

NoFrame == [fn |-> "none"]

InitVocab ==
    /\ pc = "vocab_new"
    /\ tokens \in Corpora
    /\ min_freq \in 0..MaxMinFreq
    /\ use_special_tokens \in BOOLEAN
    /\ vocab = NoVocab
    /\ arg = NoCall
    /\ result = NoCall
    /\ frame = NoFrame

\* vocab = Vocab(tokens, min_freq, use_special_tokens)
Construct ==
    /\ pc = "vocab_new"
    /\ vocab' = NewVocab(tokens, min_freq, use_special_tokens)
    /\ pc' = "vocab_built"
    /\ UNCHANGED <<tokens, min_freq, use_special_tokens, arg, result, frame>>

\* vocab[q]
GetItemCall ==
    /\ pc = "vocab_built"
    /\ \/ \E q \in {[kind |-> "str", v |-> t] : t \in QueryTokens} :
             arg' = q /\ result' = GetItem(vocab, q)
       \/ \E q \in ListArgs(ListTokens) :
             arg' = q /\ result' = GetItem(vocab, q)
    /\ pc' = "vocab_getitem"
    /\ UNCHANGED <<tokens, min_freq, use_special_tokens, vocab, frame>>

\* vocab.to_tokens(q)
ToTokensCall ==
    /\ pc = "vocab_built"
    /\ \/ \E q \in {[kind |-> "int", v |-> i] : i \in (0 - 1)..VocabLen(vocab)} :
             arg' = q /\ result' = ToTokens(vocab, q)
       \/ \E q \in ListArgs({0, VocabLen(vocab)}) :
             arg' = q /\ result' = ToTokens(vocab, q)
    /\ pc' = "vocab_to_tokens"
    /\ UNCHANGED <<tokens, min_freq, use_special_tokens, vocab, frame>>

\* the cell's value is consumed; the vocabulary is ready for the next call
Return ==
    /\ pc \in {"vocab_getitem", "vocab_to_tokens"}
    /\ pc' = "vocab_built"
    /\ arg' = NoCall
    /\ result' = NoCall
    /\ UNCHANGED <<tokens, min_freq, use_special_tokens, vocab, frame>>

NextVocab ==
    \/ Construct
    \/ GetItemCall
    \/ ToTokensCall
    \/ Return

SpecVocab == InitVocab /\ [][NextVocab]_vars

(***************************************************************************)
(* Properties of the vocabulary                                            *)
(***************************************************************************)
\* number of occurrences of token t in the corpus
Freq(t) ==
    SumSeq([l \in 1..Len(tokens) |->
               Cardinality({p \in 1..Len(tokens[l]) : tokens[l][p] = t})])

Built == pc \in {"vocab_built", "vocab_getitem", "vocab_to_tokens"}

InCorpus(t) == Freq(t) > 0

IsSpecial(t) == t \in Range(SpecialTokens(use_special_tokens))

Retained(t) == t \in DOMAIN vocab.token_to_idx

FreqOrdered ==
    \A a \in CorpusTokens : \A b \in CorpusTokens :
        (/\ Retained(a) /\ Retained(b) /\ ~IsSpecial(a) /\ ~IsSpecial(b)
         /\ Freq(a) > Freq(b))
        => vocab.token_to_idx[a] < vocab.token_to_idx[b]

\* C1 as stated: retained non-special tokens are indexed by descending
\* frequency, and every special token has a smaller index than every corpus
\* token (every token occurring in the corpus that has an index).
C1_Original ==
    Built =>
        /\ FreqOrdered
        /\ \A s \in Range(SpecialTokens(use_special_tokens)) :
             \A t \in CorpusTokens :
                (InCorpus(t) /\ Retained(t))
                => vocab.token_to_idx[s] < vocab.token_to_idx[t]

\* C1 amended: retained non-special tokens are indexed by descending
\* frequency, and every special token has a smaller index than every retained
\* corpus token that is not itself a special-token string.
C1_FreqOrder ==
    Built =>
        /\ FreqOrdered
        /\ \A s \in Range(SpecialTokens(use_special_tokens)) :
             \A t \in CorpusTokens :
                (InCorpus(t) /\ Retained(t) /\ ~IsSpecial(t))
                => vocab.token_to_idx[s] < vocab.token_to_idx[t]

\* "b" is more frequent than "a", both are retained
C1_Witness ==
    /\ Built
    /\ Freq("b") > Freq("a") /\ Freq("a") >= min_freq /\ Freq("a") > 0
    /\ Retained("a") /\ Retained("b")
    /\ vocab.token_to_idx["b"] < vocab.token_to_idx["a"]

\* the index of '<unk>' the claim names: 0 by default, 3 with special tokens
UnkIndex == IF use_special_tokens THEN 3 ELSE 0

\* not in the corpus, or removed because its frequency is below min_freq
Unknown(t) == Freq(t) = 0 \/ Freq(t) < min_freq

\* C2 as stated: __getitem__ of a token that is not in the corpus or was
\* removed returns the index of '<unk>' and never raises; of a list it returns
\* the list of the element-wise results, of the same length.
C2_Original ==
    pc = "vocab_getitem" =>
        /\ result.raised = "none"
        /\ arg.kind = "str" =>
              (Unknown(arg.v) => result.v = UnkIndex)
        /\ arg.kind = "list" =>
              /\ Len(result.v) = Len(arg.v)
              /\ \A i \in 1..Len(arg.v) :
                    Unknown(arg.v[i]) => result.v[i] = UnkIndex

\* '<pad>', '<bos>', '<eos>' when use_special_tokens = True
OtherSpecial(t) == IsSpecial(t) /\ t # "<unk>"

\* the element-wise result of the amended claim
ElementOk(t, r) ==
    IF Unknown(t) /\ ~OtherSpecial(t)
    THEN r = UnkIndex
    ELSE /\ r \in 0..(VocabLen(vocab) - 1)
         /\ vocab.idx_to_token[r + 1] = t

\* C2 amended: __getitem__ of a token that is not in the corpus or was removed,
\* and that is not one of the special tokens '<pad>', '<bos>', '<eos>' of a
\* vocabulary built with use_special_tokens=True, returns the index of '<unk>'
\* and never raises; of a list it returns the list of the element-wise
\* results, of the same length.
C2_UnknownToUnk ==
    pc = "vocab_getitem" =>
        /\ result.raised = "none"
        /\ arg.kind = "str" => ElementOk(arg.v, result.v)
        /\ arg.kind = "list" =>
              /\ Len(result.v) = Len(arg.v)
              /\ \A i \in 1..Len(arg.v) : ElementOk(arg.v[i], result.v[i])

\* with special tokens: "c" is not in the corpus, "a" was removed
C2_Witness ==
    /\ pc = "vocab_getitem"
    /\ use_special_tokens
    /\ arg.kind = "list"
    /\ arg.v = <<"c", "a">>
    /\ Freq("a") > 0 /\ Freq("a") < min_freq
    /\ result.v = <<3, 3>>

\* C3: after construction indices start at 0 and are contiguous, idx_to_token
\* has no duplicates, token_to_idx has exactly the keys in idx_to_token and the
\* two maps are inverse bijections.
C3_Bijection ==
    Built =>
        /\ \A i \in 1..VocabLen(vocab) : \A j \in 1..VocabLen(vocab) :
              vocab.idx_to_token[i] = vocab.idx_to_token[j] => i = j
        /\ DOMAIN vocab.token_to_idx = Range(vocab.idx_to_token)
        /\ {vocab.token_to_idx[t] : t \in DOMAIN vocab.token_to_idx}
              = 0..(VocabLen(vocab) - 1)
        /\ \A i \in 0..(VocabLen(vocab) - 1) :
              vocab.token_to_idx[vocab.idx_to_token[i + 1]] = i

\* the corpus itself contains special-token strings that pass min_freq
C3_Witness ==
    /\ Built
    /\ use_special_tokens
    /\ Freq("<unk>") >= 1 /\ Freq("<pad>") >= 1 /\ Freq("a") >= 1
    /\ min_freq <= 1
    /\ VocabLen(vocab) = 5

NumSpecial == Len(SpecialTokens(use_special_tokens))

KeptPlain == {t \in CorpusTokens : InCorpus(t) /\ Freq(t) >= min_freq /\ ~IsSpecial(t)}

\* C4 as stated: a corpus token is in the vocabulary iff its frequency is at
\* least min_freq; len(vocab) is the number of special tokens plus the number
\* of distinct kept tokens that are not a special-token string.
C4_Original ==
    Built =>
        /\ \A t \in CorpusTokens :
              InCorpus(t) => (Retained(t) <=> Freq(t) >= min_freq)
        /\ VocabLen(vocab) = NumSpecial + Cardinality(KeptPlain)

\* C4 amended: a corpus token that is not itself a special-token string is in
\* the vocabulary iff its frequency is at least min_freq (with min_freq = 0
\* every corpus token is kept); len(vocab) is the number of special tokens plus
\* the number of distinct kept tokens that are not a special-token string.
C4_KeptIffFrequent ==
    Built =>
        /\ \A t \in CorpusTokens :
              (InCorpus(t) /\ ~IsSpecial(t))
              => (Retained(t) <=> Freq(t) >= min_freq)
        /\ min_freq = 0 => \A t \in CorpusTokens : InCorpus(t) => Retained(t)
        /\ VocabLen(vocab) = NumSpecial + Cardinality(KeptPlain)

\* "a" occurs once and is removed, "b" occurs exactly min_freq times and is kept
C4_Witness ==
    /\ Built
    /\ min_freq = 2
    /\ Freq("a") = 1 /\ Freq("b") = 2
    /\ ~Retained("a") /\ Retained("b")
    /\ VocabLen(vocab) = NumSpecial + 1

(***************************************************************************)
(* tokenize(lines, token).  A line is a Python string, modelled as the     *)
(* sequence of its characters; the mode `token` is a string.               *)
(***************************************************************************)
MaxDocLines == 2    \* number of lines passed to tokenize
MaxChars == 2       \* length of a line

Chars == {"a", " "}

Modes == {"word", "char", "sentence", "Word", ""}

HasSpace(s) == \E i \in 1..Len(s) : s[i] = " "

FirstSpace(s) == CHOOSE i \in 1..Len(s) : s[i] = " " /\ \A j \in 1..(i - 1) : s[j] # " "

\* line.split(' '): cut at every single space; empty pieces are kept
RECURSIVE Split(_)
Split(s) ==
    IF ~HasSpace(s) THEN <<s>>
    ELSE <<SubSeq(s, 1, FirstSpace(s) - 1)>>
         \o Split(SubSeq(s, FirstSpace(s) + 1, Len(s)))

\* list(line): the one-character strings of the line
ListOfChars(s) == [i \in 1..Len(s) |-> <<s[i]>>]

\* Mutant: an unknown mode raises instead of printing.
tokenize_raising(ls, mode) ==
    IF mode = "word"
    THEN [raised |-> "none", kind |-> "list", stdout |-> <<>>,
          v |-> [i \in 1..Len(ls) |-> Split(ls[i])]]
    ELSE IF mode = "char"
    THEN [raised |-> "none", kind |-> "list", stdout |-> <<>>,
          v |-> [i \in 1..Len(ls) |-> ListOfChars(ls[i])]]
    ELSE [raised |-> "ValueError", kind |-> "None", stdout |-> <<>>]

\* the function's return value and what it prints
tokenize(ls, mode) ==
    IF mode = "word"
    THEN [raised |-> "none", kind |-> "list", stdout |-> <<>>,
          v |-> [i \in 1..Len(ls) |-> Split(ls[i])]]
    ELSE IF mode = "char"
    THEN [raised |-> "none", kind |-> "list", stdout |-> <<>>,
          v |-> [i \in 1..Len(ls) |-> ListOfChars(ls[i])]]
    ELSE [raised |-> "none", kind |-> "None",
          stdout |-> <<"ERROR: unkown token type " \o mode>>]

InitTokenize ==
    /\ pc = "tokenize_call"
    /\ frame \in {[fn |-> "tokenize", lines |-> ls, token |-> m] :
                     ls \in SeqsUpTo(SeqsUpTo(Chars, MaxChars), MaxDocLines),
                     m \in Modes}
    /\ tokens = <<>>
    /\ min_freq = 0
    /\ use_special_tokens = FALSE
    /\ vocab = NoVocab
    /\ arg = NoCall
    /\ result = NoCall

\* tokens = tokenize(lines, token)
TokenizeCall ==
    /\ pc = "tokenize_call"
    /\ pc' = "tokenize_done"
    /\ result' = tokenize(frame.lines, frame.token)
    /\ UNCHANGED <<tokens, min_freq, use_special_tokens, vocab, arg, frame>>

NextTokenize == TokenizeCall

SpecTokenize == InitTokenize /\ [][NextTokenize]_vars

\* C5: tokenize with a mode other than 'word' or 'char' prints
\* 'ERROR: unkown token type <mode>' and returns None without raising; for
\* 'word' and 'char' it never prints the error.
C5_UnknownModePrints ==
    pc = "tokenize_done" =>
        IF frame.token \notin {"word", "char"}
        THEN /\ result.raised = "none"
             /\ result.kind = "None"
             /\ Len(result.stdout) = 1
             /\ result.stdout[1] = "ERROR: unkown token type " \o frame.token
        ELSE /\ result.raised = "none"
             /\ result.stdout = <<>>

C5_Witness ==
    /\ pc = "tokenize_done"
    /\ frame.token = "sentence"
    /\ frame.lines = <<<<"a", " ">>>>
    /\ result.kind = "None"
    /\ result.stdout = <<"ERROR: unkown token type sentence">>

(***************************************************************************)
(* Attention.  An array is a nested sequence; a softmax weight is the      *)
(* exact fraction num / den, a row of weights is [num |-> <<..>>, den |-> d].*)
(* Scores are measured in units in which exp doubles per unit (the base of *)
(* the exponential does not matter to the properties stated below), and    *)
(* exp of a difference below -ExpUnderflow is 0, as in floating point.     *)
(***************************************************************************)
BatchSize == 2      \* batch elements of an attention input
NumQueries == 2     \* rows per batch element of a masked_softmax input
NumKeys == 2        \* length of the last axis (key-value pairs)

MaskValue == -1000000

ExpUnderflow == 149

Pow2(n) == 2 ^ n

SeqMax(r) == CHOOSE m \in Range(r) : \A x \in Range(r) : x <= m

\* npx.softmax of one row: exp(x - max) / sum, with underflow to 0
Softmax(r) ==
    LET m == SeqMax(r)
        live == {j \in 1..Len(r) : m - r[j] <= ExpUnderflow}
        lo == CHOOSE x \in {r[j] : j \in live} : \A j \in live : x <= r[j]
        num == [j \in 1..Len(r) |-> IF j \in live THEN Pow2(r[j] - lo) ELSE 0]
    IN  [num |-> num, den |-> SumSeq(num)]

\* valid_length.repeat(n, axis=0)
Repeat(v, n) == [i \in 1..(Len(v) * n) |-> v[((i - 1) \div n) + 1]]

\* npx.sequence_mask(rows, lens, True, axis=1, value=value)
SequenceMask(rows, lens, value) ==
    [i \in 1..Len(rows) |->
        [j \in 1..Len(rows[i]) |-> IF j - 1 >= lens[i] THEN value ELSE rows[i][j]]]

\* rows.reshape(shape): back to (batch, n, last axis)
Reshape3(rows, n) ==
    [b \in 1..(Len(rows) \div n) |-> [q \in 1..n |-> rows[(b - 1) * n + q]]]

\* valid_length is [kind |-> "None"], [kind |-> "1d", v |-> ..] or "2d"
masked_softmax(X, valid_length) ==
    IF valid_length.kind = "None"
    THEN [b \in 1..Len(X) |-> [q \in 1..Len(X[b]) |-> Softmax(X[b][q])]]
    ELSE LET n == Len(X[1])
             lens == IF valid_length.kind = "1d"
                     THEN Repeat(valid_length.v, n)
                     ELSE Flatten(valid_length.v)
             masked == SequenceMask(Flatten(X), lens, MaskValue)
         IN  Reshape3([i \in 1..Len(masked) |-> Softmax(masked[i])], n)

\* nn.Dropout in prediction mode (outside autograd.record) returns its input
Dropout(w) == w

Dot(x, y) == SumSeq([c \in 1..Len(x) |-> x[c] * y[c]])

\* math.sqrt(d), for the d that are perfect squares
Sqrt(d) == CHOOSE r \in 0..d : r * r = d

\* npx.batch_dot(weights, value) with fractional weights
WeightedSum(w, value) ==
    [c \in 1..Len(value[1]) |->
        [num |-> SumSeq([n \in 1..Len(value) |-> w.num[n] * value[n][c]]),
         den |-> w.den]]

BatchDotWeights(weights, value) ==
    [b \in 1..Len(weights) |->
        [q \in 1..Len(weights[b]) |-> WeightedSum(weights[b][q], value[b])]]

\* DotProductAttention.forward
DotProductForward(query, key, value, valid_length) ==
    LET d == Len(query[1][1])
        scores == [b \in 1..Len(query) |-> [q \in 1..Len(query[b]) |->
                      [n \in 1..Len(key[b]) |->
                          Dot(query[b][q], key[b][n]) \div Sqrt(d)]]]
        attention_weights == Dropout(masked_softmax(scores, valid_length))
    IN  [scores |-> scores, attention_weights |-> attention_weights,
         out |-> BatchDotWeights(attention_weights, value)]

\* tanh in fixed point, in quarters: tanh(1) = 0.76, tanh(2) = 0.96, ...
Tanh(x) ==
    IF x = 0 THEN 0
    ELSE IF x = 1 THEN 3
    ELSE IF x = 0 - 1 THEN 0 - 3
    ELSE IF x > 0 THEN 4 ELSE 0 - 4

\* nn.Dense(units, activation='tanh', use_bias=False, flatten=False)
DenseTanh(W, x) ==
    [b \in 1..Len(x) |-> [i \in 1..Len(x[b]) |->
        [u \in 1..Len(W) |-> Tanh(Dot(W[u], x[b][i]))]]]

\* MLPAttention.forward; W_k, W_q, v are the layers' weights
MLPForward(W_k, W_q, v, query, key, value, valid_length) ==
    LET pq == DenseTanh(W_k, query)
        pk == DenseTanh(W_q, key)
        scores == [b \in 1..Len(pq) |-> [q \in 1..Len(pq[b]) |->
                      [n \in 1..Len(pk[b]) |->
                          Dot(v, [u \in 1..Len(v) |-> pq[b][q][u] + pk[b][n][u]])]]]
        attention_weights == Dropout(masked_softmax(scores, valid_length))
    IN  [scores |-> scores, attention_weights |-> attention_weights,
         out |-> BatchDotWeights(attention_weights, value)]

(***************************************************************************)
(* The attention cells as a state machine: a cell calls one function; its  *)
(* arguments are kept in frame and its locals and return value in result.  *)
(***************************************************************************)
Array3(b, n, c, S) == [1..b -> [1..n -> [1..c -> S]]]

Lengths == 0..(NumKeys + 1)

InitAttention ==
    /\ pc = "attn_idle"
    /\ frame = NoFrame
    /\ result = NoCall
    /\ tokens = <<>>
    /\ min_freq = 0
    /\ use_special_tokens = FALSE
    /\ vocab = NoVocab
    /\ arg = NoCall

AttnDone == /\ pc' = "attn_done"
            /\ UNCHANGED <<tokens, min_freq, use_special_tokens, vocab, arg>>

CallMaskedSoftmax(X, vl) ==
    /\ frame' = [fn |-> "masked_softmax", X |-> X, valid_length |-> vl]
    /\ result' = [ret |-> masked_softmax(X, vl)]
    /\ AttnDone

\* masked_softmax(X, valid_length) on a (BatchSize, NumQueries, NumKeys) array
MaskedSoftmaxCall ==
    /\ pc = "attn_idle"
    /\ \E X \in Array3(BatchSize, NumQueries, NumKeys, 0..1) :
          \/ CallMaskedSoftmax(X, [kind |-> "None"])
          \/ \E v \in [1..BatchSize -> Lengths] :
                CallMaskedSoftmax(X, [kind |-> "1d", v |-> v])
          \/ \E v \in [1..BatchSize -> [1..NumQueries -> Lengths]] :
                CallMaskedSoftmax(X, [kind |-> "2d", v |-> v])

CallDotProduct(query, key, value, vl) ==
    /\ frame' = [fn |-> "DotProductAttention", query |-> query, key |-> key,
                 value |-> value, valid_length |-> vl]
    /\ result' = DotProductForward(query, key, value, vl)
    /\ AttnDone

\* atten(query, key, value, valid_length): one query per batch element
DotProductCall ==
    /\ pc = "attn_idle"
    /\ \E query \in Array3(BatchSize, 1, 1, 0..1) :
       \E key \in Array3(BatchSize, NumKeys, 1, 0..1) :
       \E value \in Array3(BatchSize, NumKeys, 1, 0..1) :
          \/ CallDotProduct(query, key, value, [kind |-> "None"])
          \/ \E v \in [1..BatchSize -> Lengths] :
                CallDotProduct(query, key, value, [kind |-> "1d", v |-> v])
          \/ \E v \in [1..BatchSize -> [1..1 -> Lengths]] :
                CallDotProduct(query, key, value, [kind |-> "2d", v |-> v])

CallMLP(W_k, W_q, v, query, key, value, vl) ==
    /\ frame' = [fn |-> "MLPAttention", W_k |-> W_k, W_q |-> W_q, v |-> v,
                 query |-> query, key |-> key, value |-> value,
                 valid_length |-> vl]
    /\ result' = MLPForward(W_k, W_q, v, query, key, value, vl)
    /\ AttnDone

\* atten(query, key, value, valid_length) of an MLPAttention with units = 1
MLPCall ==
    /\ pc = "attn_idle"
    /\ \E W_k \in [1..1 -> [1..1 -> (0 - 1)..1]] :
       \E W_q \in [1..1 -> [1..1 -> (0 - 1)..1]] :
       \E v \in [1..1 -> {0 - 1, 1}] :
       \E query \in Array3(1, 1, 1, 0..2) :
       \E key \in Array3(1, NumKeys, 1, 0..2) :
       \E value \in Array3(1, NumKeys, 1, 0..1) :
          \/ CallMLP(W_k, W_q, v, query, key, value, [kind |-> "None"])
          \/ \E l \in [1..1 -> Lengths] :
                CallMLP(W_k, W_q, v, query, key, value, [kind |-> "1d", v |-> l])

\* the cell's output is shown; the next cell can call again
AttnReturn ==
    /\ pc = "attn_done"
    /\ pc' = "attn_idle"
    /\ frame' = NoFrame
    /\ result' = NoCall
    /\ UNCHANGED <<tokens, min_freq, use_special_tokens, vocab, arg>>

NextAttention ==
    \/ MaskedSoftmaxCall
    \/ DotProductCall
    \/ MLPCall
    \/ AttnReturn

SpecAttention == InitAttention /\ [][NextAttention]_vars

(***************************************************************************)
(* Properties of attention                                                 *)
(***************************************************************************)
\* the valid length of row (b, q); with None nothing is masked
RowLength(vl, b, q, n) ==
    IF vl.kind = "None" THEN n
    ELSE IF vl.kind = "1d" THEN vl.v[b] ELSE vl.v[b][q]

Min2(a, b) == IF a <= b THEN a ELSE b

\* w is 0 from position len on and the softmax of x[0..len-1] before it
MaskedRowOk(x, len, w) ==
    LET valid == 1..Min2(len, Len(x))
        total == SumSeq([k \in valid |-> Pow2(x[k])])
    IN  /\ Len(w.num) = Len(x)
        /\ w.den > 0
        /\ \A j \in 1..Len(x) :
              IF j - 1 >= len THEN w.num[j] = 0
              ELSE w.num[j] * total = Pow2(x[j]) * w.den

MaskedSoftmaxOk(X, vl, ret) ==
    /\ Len(ret) = Len(X)
    /\ \A b \in 1..Len(X) :
          /\ Len(ret[b]) = Len(X[b])
          /\ \A q \in 1..Len(X[b]) :
                MaskedRowOk(X[b][q], RowLength(vl, b, q, Len(X[b][q])), ret[b][q])

\* C6: masked_softmax returns an array of the same shape in which every
\* position at or beyond the row's valid length is 0 and the positions before
\* it hold the softmax of the corresponding inputs (row (b, q) uses
\* valid_length[b], valid_length[b, q], or no mask with None).
C6_MaskedSoftmax ==
    (pc = "attn_done" /\ frame.fn = "masked_softmax")
    => MaskedSoftmaxOk(frame.X, frame.valid_length, result.ret)

AllLengthsPositive(vl) ==
    \/ vl.kind = "None"
    \/ vl.kind = "1d" /\ \A b \in 1..Len(vl.v) : vl.v[b] >= 1
    \/ vl.kind = "2d" /\ \A b \in 1..Len(vl.v) : \A q \in 1..Len(vl.v[b]) : vl.v[b][q] >= 1

\* the statement of C6 restricted to valid lengths of at least 1
MaskedSoftmaxPositiveLengths ==
    (/\ pc = "attn_done" /\ frame.fn = "masked_softmax"
     /\ AllLengthsPositive(frame.valid_length))
    => MaskedSoftmaxOk(frame.X, frame.valid_length, result.ret)

FracEq(x, y) == x.num * y.den = y.num * x.den

\* key and value with batch element b replaced from position len on
ReplaceTail(a, b, len, t) ==
    [a EXCEPT ![b] = [n \in 1..Len(a[b]) |-> IF n - 1 >= len THEN t[n] ELSE a[b][n]]]

Tails == [1..NumKeys -> [1..1 -> 0..1]]

OnlyValidPairs(b) ==
    LET L == frame.valid_length.v[b]
    IN  \A kt \in Tails : \A vt \in Tails :
           LET other == DotProductForward(frame.query,
                            ReplaceTail(frame.key, b, L, kt),
                            ReplaceTail(frame.value, b, L, vt),
                            frame.valid_length)
           IN  \A q \in 1..Len(result.out[b]) : \A c \in 1..Len(result.out[b][q]) :
                  FracEq(other.out[b][q][c], result.out[b][q][c])

MeanOfValidValues(b) ==
    LET L == frame.valid_length.v[b]
    IN  (/\ L >= 1 /\ L <= Len(frame.key[b])
         /\ \A n \in 1..L : frame.key[b][n] = frame.key[b][1])
        => \A q \in 1..Len(result.out[b]) : \A c \in 1..Len(result.out[b][q]) :
              result.out[b][q][c].num * L
                  = result.out[b][q][c].den
                    * SumSeq([n \in 1..L |-> frame.value[b][n][c]])

\* C7: the output of DotProductAttention.forward for batch element b depends
\* only on the first valid_length[b] key-value pairs (calls that differ only
\* at later positions return the same output for b), and when all valid keys
\* are identical it is the arithmetic mean of the first valid_length[b] values.
C7_OnlyValidPairs ==
    (/\ pc = "attn_done" /\ frame.fn = "DotProductAttention"
     /\ frame.valid_length.kind = "1d")
    => \A b \in 1..Len(frame.query) : OnlyValidPairs(b) /\ MeanOfValidValues(b)

\* the statement of C7 restricted to valid lengths of at least 1
DotProductPositiveLengths ==
    (/\ pc = "attn_done" /\ frame.fn = "DotProductAttention"
     /\ frame.valid_length.kind = "1d")
    => \A b \in 1..Len(frame.query) :
          frame.valid_length.v[b] >= 1 => OnlyValidPairs(b) /\ MeanOfValidValues(b)

\* v^T tanh(W_k k + W_q q)
DocumentedScore(W_k, W_q, v, q, k) ==
    Dot(v, [u \in 1..Len(v) |-> Tanh(Dot(W_k[u], k) + Dot(W_q[u], q))])

\* C8: MLPAttention scores every (query q, key k) pair as
\* v^T tanh(W_k k + W_q q), without bias, and the attention weights are the
\* masked softmax of these scores.
C8_MLPScore ==
    (pc = "attn_done" /\ frame.fn = "MLPAttention")
    => /\ \A b \in 1..Len(frame.query) :
          \A q \in 1..Len(frame.query[b]) :
          \A n \in 1..Len(frame.key[b]) :
             result.scores[b][q][n]
                 = DocumentedScore(frame.W_k, frame.W_q, frame.v,
                                   frame.query[b][q], frame.key[b][n])
       /\ result.attention_weights
              = masked_softmax(result.scores, frame.valid_length)

\* what the code computes instead: v^T (tanh(W_k q) + tanh(W_q k))
MLPScoreAsCoded ==
    (pc = "attn_done" /\ frame.fn = "MLPAttention")
    => \A b \in 1..Len(frame.query) :
       \A q \in 1..Len(frame.query[b]) :
       \A n \in 1..Len(frame.key[b]) :
          result.scores[b][q][n]
              = SumSeq([u \in 1..Len(frame.v) |->
                    frame.v[u] * (Tanh(Dot(frame.W_k[u], frame.query[b][q]))
                                  + Tanh(Dot(frame.W_q[u], frame.key[b][n])))])

(***************************************************************************)
(* Transposed convolution.  A matrix is a sequence of rows; the loop       *)
(* counters i, j keep their Python (0-based) values.  Entries are integers *)
(* (the arithmetic of the cells is exact on them).                         *)
(***************************************************************************)
MaxN == 2           \* rows and columns of the input X

KernelDims == 1..2

ExampleX == <<<<0, 1>>, <<2, 3>>>>

ExampleK == <<<<0, 1>>, <<2, 3>>>>

Matrices(rows, cols, S) == [1..rows -> [1..cols -> S]]

Inputs == {ExampleX} \cup
    UNION {Matrices(r, c, 0..1) : r \in 1..MaxN, c \in 1..MaxN}

Kernels == {ExampleK} \cup
    UNION {Matrices(r, c, 0..1) : r \in KernelDims, c \in KernelDims}

Rows(M) == Len(M)

Cols(M) == Len(M[1])

\* np.zeros((rows, cols))
Zeros(rows, cols) == [a \in 1..rows |-> [b \in 1..cols |-> 0]]

\* X[i, j] * K
Scale(x, K) == [a \in 1..Rows(K) |-> [b \in 1..Cols(K) |-> x * K[a][b]]]

\* Y[i: i + h, j: j + w] += P
AddWindow(Y, i, j, h, w, P) ==
    [a \in 1..Rows(Y) |-> [b \in 1..Cols(Y) |->
        IF a - 1 >= i /\ a - 1 < i + h /\ b - 1 >= j /\ b - 1 < j + w
        THEN Y[a][b] + P[a - i][b - j]
        ELSE Y[a][b]]]

\* Mutant: the kernel is scaled in place before it is added.
TransConvBodyInPlace(f) ==
    [f EXCEPT !.K = Scale(f.X[f.i + 1][f.j + 1], f.K),
              !.Y = AddWindow(f.Y, f.i, f.j, f.h, f.w,
                              Scale(f.X[f.i + 1][f.j + 1], f.K))]

\* the loop body: Y[i: i + h, j: j + w] += X[i, j] * K
TransConvBody(f) ==
    [f EXCEPT !.Y = AddWindow(f.Y, f.i, f.j, f.h, f.w,
                              Scale(f.X[f.i + 1][f.j + 1], f.K))]

\* for i in range(X.shape[0]): for j in range(X.shape[1]): the next (i, j)
Advance(f) ==
    IF f.j + 1 < Cols(f.X) THEN [f EXCEPT !.j = f.j + 1]
    ELSE [f EXCEPT !.i = f.i + 1, !.j = 0]

\* Mutant: the two kernel rows are stored without the gap between them.
kernel2matrix_nogap(K) ==
    LET k == <<K[1][1], K[1][2], K[2][1], K[2][2], 0>>
        place(off) == [c \in 1..9 |-> IF c - 1 >= off /\ c - 1 < off + 5
                                      THEN k[c - off] ELSE 0]
    IN  <<place(0), place(1), place(3), place(4)>>

\* Mutant: the last block of the kernel matrix is placed one column early.
kernel2matrix_shifted(K) ==
    LET k == <<K[1][1], K[1][2], 0, K[2][1], K[2][2]>>
        place(off) == [c \in 1..9 |-> IF c - 1 >= off /\ c - 1 < off + 5
                                      THEN k[c - off] ELSE 0]
    IN  <<place(0), place(1), place(3), place(3)>>

\* k[:2], k[3:5] = K[0, :], K[1, :]
\* W[0, :5], W[1, 1:6], W[2, 3:8], W[3, 4:] = k, k, k, k
kernel2matrix(K) ==
    LET k == <<K[1][1], K[1][2], 0, K[2][1], K[2][2]>>
        place(off) == [c \in 1..9 |-> IF c - 1 >= off /\ c - 1 < off + 5
                                      THEN k[c - off] ELSE 0]
    IN  <<place(0), place(1), place(3), place(4)>>

\* W.T
Transpose(W) == [c \in 1..Cols(W) |-> [r \in 1..Rows(W) |-> W[r][c]]]

\* X.reshape(-1)
Ravel(M) == Flatten(M)

\* np.dot(M, x) of a matrix and a vector
MatVec(M, x) == [r \in 1..Rows(M) |-> Dot(M[r], x)]

\* x.reshape(rows, cols)
Reshape2(x, rows, cols) == [a \in 1..rows |-> [b \in 1..cols |-> x[(a - 1) * cols + b]]]

InitConv ==
    /\ pc = "trans_conv_call"
    /\ \E X \in Inputs : \E K \in Kernels :
          /\ frame = [fn |-> "trans_conv", X |-> X, K |-> K]
          /\ arg = [X |-> X, K |-> K]
    /\ result = NoCall
    /\ tokens = <<>>
    /\ min_freq = 0
    /\ use_special_tokens = FALSE
    /\ vocab = NoVocab

\* h, w = K.shape;  Y = np.zeros((X.shape[0] + h - 1, X.shape[1] + w - 1))
TransConvEnter ==
    /\ pc = "trans_conv_call"
    /\ frame' = [fn |-> "trans_conv", X |-> frame.X, K |-> frame.K,
                 h |-> Rows(frame.K), w |-> Cols(frame.K),
                 Y |-> Zeros(Rows(frame.X) + Rows(frame.K) - 1,
                             Cols(frame.X) + Cols(frame.K) - 1),
                 i |-> 0, j |-> 0]
    /\ pc' = "trans_conv_loop"
    /\ UNCHANGED <<tokens, min_freq, use_special_tokens, vocab, arg, result>>

\* one iteration of the nested loop
TransConvStep ==
    /\ pc = "trans_conv_loop"
    /\ frame.i < Rows(frame.X)
    /\ frame' = Advance(TransConvBody(frame))
    /\ UNCHANGED <<pc, tokens, min_freq, use_special_tokens, vocab, arg, result>>

\* return Y
TransConvReturn ==
    /\ pc = "trans_conv_loop"
    /\ frame.i >= Rows(frame.X)
    /\ result' = [ret |-> frame.Y]
    /\ pc' = "trans_conv_done"
    /\ UNCHANGED <<tokens, min_freq, use_special_tokens, vocab, arg, frame>>

\* cell 11: Y == np.dot(W.T, X.reshape(-1)).reshape(3, 3), with W = kernel2matrix(K)
MatMulCompare ==
    /\ pc = "trans_conv_done"
    /\ Rows(frame.X) = 2 /\ Cols(frame.X) = 2
    /\ Rows(frame.K) = 2 /\ Cols(frame.K) = 2
    /\ LET W == kernel2matrix(frame.K)
           Z == Reshape2(MatVec(Transpose(W), Ravel(frame.X)), 3, 3)
       IN  result' = [ret |-> result.ret, W |-> W, matmul |-> Z,
                      equal |-> [a \in 1..3 |-> [b \in 1..3 |->
                                    result.ret[a][b] = Z[a][b]]]]
    /\ pc' = "trans_conv_compared"
    /\ UNCHANGED <<tokens, min_freq, use_special_tokens, vocab, arg, frame>>

NextConv ==
    \/ TransConvEnter
    \/ TransConvStep
    \/ TransConvReturn
    \/ MatMulCompare

SpecConv == InitConv /\ [][NextConv]_vars

(***************************************************************************)
(* Properties of the transposed convolution                                *)
(***************************************************************************)
\* sum of X[i, j] * K[a - i, b - j] over 0 <= a - i < h and 0 <= b - j < w
\* (a, b, i, j 0-based)
Broadcast(X, K, a, b) ==
    SumSeq([i \in 1..Rows(X) |->
        SumSeq([j \in 1..Cols(X) |->
            IF /\ a - (i - 1) >= 0 /\ a - (i - 1) < Rows(K)
               /\ b - (j - 1) >= 0 /\ b - (j - 1) < Cols(K)
            THEN X[i][j] * K[a - (i - 1) + 1][b - (j - 1) + 1]
            ELSE 0])])

\* C9: trans_conv(X, K) returns Y of shape (n_h + h - 1, n_w + w - 1) with
\* Y[a, b] the sum of X[i, j] * K[a - i, b - j] over the (i, j) with
\* 0 <= a - i < h and 0 <= b - j < w; X and K are not modified.
C9_TransConv ==
    /\ pc \in {"trans_conv_loop", "trans_conv_done", "trans_conv_compared"}
          => frame.X = arg.X /\ frame.K = arg.K
    /\ pc \in {"trans_conv_done", "trans_conv_compared"}
          => /\ Rows(result.ret) = Rows(arg.X) + Rows(arg.K) - 1
             /\ \A a \in 1..Rows(result.ret) :
                   /\ Len(result.ret[a]) = Cols(arg.X) + Cols(arg.K) - 1
                   /\ \A b \in 1..Len(result.ret[a]) :
                         result.ret[a][b] = Broadcast(arg.X, arg.K, a - 1, b - 1)

\* the example of the notebook, and its output
C9_Witness ==
    /\ pc = "trans_conv_done"
    /\ arg.X = ExampleX /\ arg.K = ExampleK
    /\ result.ret = <<<<0, 0, 1>>, <<0, 4, 6>>, <<4, 12, 9>>>>

\* C10: for every 2x2 X and 2x2 K, trans_conv(X, K) equals the product of
\* the transpose of kernel2matrix(K) with the flattened X, reshaped to 3x3.
C10_MatrixTranspose ==
    pc = "trans_conv_compared"
        => /\ \A a \in 1..3 : \A b \in 1..3 : result.equal[a][b]
           /\ result.matmul = result.ret
           /\ Rows(result.W) = 4 /\ \A r \in 1..4 : Len(result.W[r]) = 9

C10_Witness ==
    /\ pc = "trans_conv_compared"
    /\ arg.X = ExampleX /\ arg.K = ExampleK
    /\ result.W = <<<<0, 1, 0, 2, 3, 0, 0, 0, 0>>, <<0, 0, 1, 0, 2, 3, 0, 0, 0>>,
                    <<0, 0, 0, 0, 1, 0, 2, 3, 0>>, <<0, 0, 0, 0, 0, 1, 0, 2, 3>>>>
    /\ result.matmul = <<<<0, 0, 1>>, <<0, 4, 6>>, <<4, 12, 9>>>>

(***************************************************************************)
(* Convolution as a matrix product (cells 8 to 10): Y = d2l.corr2d(X, K),  *)
(* W = kernel2matrix(K), Y == np.dot(W, X.reshape(-1)).reshape(2, 2).      *)
(***************************************************************************)
\* X = np.arange(9).reshape(3, 3)
ExampleX3 == <<<<0, 1, 2>>, <<3, 4, 5>>, <<6, 7, 8>>>>

Inputs3 == {ExampleX3} \cup Matrices(3, 3, 0..1)

Kernels2 == {ExampleK} \cup Matrices(2, 2, 0..2)

\* (X[i: i + h, j: j + w] * K).sum()
WindowSum(X, K, i, j) ==
    SumSeq([a \in 1..Rows(K) |->
        SumSeq([b \in 1..Cols(K) |-> X[i + a][j + b] * K[a][b]])])

\* d2l.corr2d, as the notebook describes it: Y[i, j] = (X[i: i + h, j: j + w] * K).sum()
corr2d(X, K) ==
    [i \in 1..(Rows(X) - Rows(K) + 1) |->
        [j \in 1..(Cols(X) - Cols(K) + 1) |-> WindowSum(X, K, i - 1, j - 1)]]

InitCorr ==
    /\ pc = "corr2d_call"
    /\ \E X \in Inputs3 : \E K \in Kernels2 :
          /\ frame = [fn |-> "corr2d", X |-> X, K |-> K]
          /\ arg = [X |-> X, K |-> K]
    /\ result = NoCall
    /\ tokens = <<>>
    /\ min_freq = 0
    /\ use_special_tokens = FALSE
    /\ vocab = NoVocab

\* cell 8: Y = d2l.corr2d(X, K)
Corr2dCall ==
    /\ pc = "corr2d_call"
    /\ result' = [Y |-> corr2d(frame.X, frame.K)]
    /\ pc' = "corr2d_done"
    /\ UNCHANGED <<tokens, min_freq, use_special_tokens, vocab, arg, frame>>

\* cell 9: W = kernel2matrix(K)
Kernel2MatrixCall ==
    /\ pc = "corr2d_done"
    /\ result' = [Y |-> result.Y, W |-> kernel2matrix(frame.K)]
    /\ pc' = "kernel2matrix_done"
    /\ UNCHANGED <<tokens, min_freq, use_special_tokens, vocab, arg, frame>>

\* cell 10: Y == np.dot(W, X.reshape(-1)).reshape(2, 2)
MatMulCorrCompare ==
    /\ pc = "kernel2matrix_done"
    /\ LET Z == Reshape2(MatVec(result.W, Ravel(frame.X)), 2, 2)
       IN  result' = [Y |-> result.Y, W |-> result.W, matmul |-> Z,
                      equal |-> [a \in 1..2 |-> [b \in 1..2 |->
                                    result.Y[a][b] = Z[a][b]]]]
    /\ pc' = "corr2d_compared"
    /\ UNCHANGED <<tokens, min_freq, use_special_tokens, vocab, arg, frame>>

NextCorr ==
    \/ Corr2dCall
    \/ Kernel2MatrixCall
    \/ MatMulCorrCompare

SpecCorr == InitCorr /\ [][NextCorr]_vars

\* sum(X[i: i + 2, j: j + 2] * K), i and j 0-based
CrossCorrelation(X, K, i, j) ==
    X[i + 1][j + 1] * K[1][1] + X[i + 1][j + 2] * K[1][2]
    + X[i + 2][j + 1] * K[2][1] + X[i + 2][j + 2] * K[2][2]

\* C11: for every 3x3 X and 2x2 K, W = kernel2matrix(K) is a 4x9 matrix whose
\* i-th row applies the kernel to produce the i-th output element: W times
\* the flattened X, reshaped to 2x2, equals the cross-correlation
\* Y[i, j] = sum(X[i: i + 2, j: j + 2] * K).
C11_KernelMatrix ==
    /\ pc \in {"kernel2matrix_done", "corr2d_compared"}
          => /\ Rows(result.W) = 4
             /\ \A r \in 1..4 : Len(result.W[r]) = 9
             /\ \A i \in 0..1 : \A j \in 0..1 :
                   Dot(result.W[2 * i + j + 1], Ravel(arg.X))
                       = CrossCorrelation(arg.X, arg.K, i, j)
    /\ pc = "corr2d_compared"
          => /\ \A i \in 0..1 : \A j \in 0..1 :
                   result.matmul[i + 1][j + 1] = CrossCorrelation(arg.X, arg.K, i, j)
             /\ \A a \in 1..2 : \A b \in 1..2 : result.equal[a][b]

\* the example of the notebook: X = arange(9), K = [[0, 1], [2, 3]]
C11_Witness ==
    /\ pc = "corr2d_compared"
    /\ arg.X = ExampleX3 /\ arg.K = ExampleK
    /\ result.W = <<<<0, 1, 0, 2, 3, 0, 0, 0, 0>>, <<0, 0, 1, 0, 2, 3, 0, 0, 0>>,
                    <<0, 0, 0, 0, 1, 0, 2, 3, 0>>, <<0, 0, 0, 0, 0, 1, 0, 2, 3>>>>
    /\ result.matmul = <<<<19, 25>>, <<37, 43>>>>
    /\ result.Y = <<<<19, 25>>, <<37, 43>>>>

(***************************************************************************)
(* Hybridization (hybridize.ipynb).  A HybridBlock runs hybrid_forward     *)
(* with F = mxnet.ndarray on arrays until hybridize() is called; the first *)
(* call after that runs hybrid_forward once with F = mxnet.symbol on the   *)
(* symbol `data`, keeps the graph it builds and executes it on the input;  *)
(* later calls execute the kept graph without running any Python code.     *)
(* A graph is the list of its nodes, as in my_mlp-symbol.json; the value   *)
(* of a symbol is the last node of its graph.                              *)
(***************************************************************************)
MaxCalls == 3

\* npx.relu / Activation('relu') on an array
Relu(M) == [r \in 1..Rows(M) |-> [c \in 1..Cols(M) |-> IF M[r][c] > 0 THEN M[r][c] ELSE 0]]

\* the dense layer on an array: x W^T + b
FullyConnected(x, W, b) ==
    [r \in 1..Rows(x) |-> [u \in 1..Rows(W) |-> Dot(x[r], W[u]) + b[u]]]

\* a variable of the graph: {"op": "null", "name": ..., "inputs": []}
Var(name) == [op |-> "null", name |-> name, inputs |-> <<>>]

\* F.npx.relu(x): on an array the values, on a symbol one more node
F_relu(F, x) ==
    IF F = "ndarray" THEN Relu(x)
    ELSE Append(x, [op |-> "relu", name |-> "relu", inputs |-> <<Len(x)>>])

\* nn.Dense(units, activation) applied to x under F
Dense(F, x, layer) ==
    IF F = "ndarray"
    THEN LET y == FullyConnected(x, layer.weight, layer.bias)
         IN  IF layer.activation = "relu" THEN Relu(y) ELSE y
    ELSE LET g  == x \o <<Var(layer.name \o "_weight"), Var(layer.name \o "_bias")>>
             fc == Append(g, [op |-> "FullyConnected", name |-> layer.name \o "_fwd",
                              inputs |-> <<Len(x), Len(x) + 1, Len(x) + 2>>])
         IN  IF layer.activation = "relu"
             THEN Append(fc, [op |-> "Activation", name |-> layer.name \o "_relu",
                              inputs |-> <<Len(fc)>>])
             ELSE fc

\* what print shows of x: the array, or the name of the symbol
Shown(F, x) == IF F = "ndarray" THEN x ELSE x[Len(x)].name

\* Mutant: the relu is computed by Python code on the array, outside F, so
\* that tracing with symbols does not record it.
hybrid_forward_python_relu(F, x, self) ==
    LET d == Dense(F, x, self.hidden)
        h == IF F = "ndarray" THEN Relu(d) ELSE d
    IN  [out |-> Dense(F, h, self.output),
         printed |-> <<[text |-> "module F: ", v |-> F],
                       [text |-> "value  x: ", v |-> Shown(F, x)],
                       [text |-> "result  : ", v |-> Shown(F, h)]>>]

\* HybridNet.hybrid_forward(self, F, x): the value returned and the lines printed
hybrid_forward(F, x, self) ==
    LET h == F_relu(F, Dense(F, x, self.hidden))
    IN  [out |-> Dense(F, h, self.output),
         printed |-> <<[text |-> "module F: ", v |-> F],
                       [text |-> "value  x: ", v |-> Shown(F, x)],
                       [text |-> "result  : ", v |-> Shown(F, h)]>>]

\* nn.HybridSequential: the layers applied one after the other
RECURSIVE SequentialForward(_, _, _)
SequentialForward(F, x, layers) ==
    IF layers = <<>> THEN x
    ELSE SequentialForward(F, Dense(F, x, Head(layers)), Tail(layers))

Forward(F, x, self) ==
    IF self.class = "HybridNet" THEN hybrid_forward(F, x, self)
    ELSE [out |-> SequentialForward(F, x, self.layers), printed |-> <<>>]

\* the parameters of the network, by layer
Params(self) ==
    IF self.class = "HybridNet" THEN <<self.hidden, self.output>> ELSE self.layers

\* the array bound to a variable of the graph: the input or a parameter
Lookup(self, x, name) ==
    IF name = "data" THEN x
    ELSE LET L == Params(self)
             l == CHOOSE i \in 1..Len(L) :
                     name \in {L[i].name \o "_weight", L[i].name \o "_bias"}
         IN  IF name = L[l].name \o "_weight" THEN L[l].weight ELSE L[l].bias

\* the backend executing a graph node by node; vals are the nodes' values so far
RECURSIVE RunNodes(_, _, _, _)
RunNodes(graph, self, x, vals) ==
    IF Len(vals) = Len(graph) THEN vals
    ELSE LET n == graph[Len(vals) + 1]
             v == CASE n.op = "null" -> Lookup(self, x, n.name)
                    [] n.op = "FullyConnected" ->
                          FullyConnected(vals[n.inputs[1]], vals[n.inputs[2]],
                                         vals[n.inputs[3]])
                    [] n.op \in {"relu", "Activation"} -> Relu(vals[n.inputs[1]])
         IN  RunNodes(graph, self, x, Append(vals, v))

Execute(graph, self, x) == RunNodes(graph, self, x, <<>>)[Len(graph)]

NoBias(n) == [u \in 1..n |-> 0]

DenseLayer(name, W, b, act) ==
    [name |-> name, weight |-> W, bias |-> b, activation |-> act]

\* net = HybridNet(); net.initialize(), with the layers scaled down to 2 and 1 units
HybridNets ==
    {[class |-> "HybridNet",
      hidden |-> DenseLayer("dense0", W1, b1, "none"),
      output |-> DenseLayer("dense1", W2, NoBias(1), "none")] :
        W1 \in Matrices(2, 2, {-1, 1}), b1 \in {NoBias(2), <<1, -1>>},
        W2 \in Matrices(1, 2, {-1, 1})}

\* net = get_net(), with the layers scaled down to 1 unit each
SequentialNets ==
    {[class |-> "HybridSequential",
      layers |-> <<DenseLayer("dense0", W1, NoBias(1), "relu"),
                   DenseLayer("dense1", W2, NoBias(1), "relu"),
                   DenseLayer("dense2", W3, NoBias(1), "none")>>] :
        W1 \in Matrices(1, 2, {-1, 1}), W2 \in Matrices(1, 1, {-1, 1}),
        W3 \in Matrices(1, 1, {-1, 1})}

\* x = np.random.normal(size=(1, n))
NetInputs == Matrices(1, 2, -1..1)

InitHybrid ==
    /\ pc = "net_ready"
    /\ \/ \E net \in HybridNets : \E x \in NetInputs :
             /\ arg = [net |-> net, x |-> x]
             /\ frame = [fn |-> "net", self |-> net, x |-> x,
                         active |-> FALSE, cached_graph |-> <<>>]
       \/ \E net \in SequentialNets : \E x \in NetInputs :
             /\ arg = [net |-> net, x |-> x]
             /\ frame = [fn |-> "net", self |-> net, x |-> x,
                         active |-> FALSE, cached_graph |-> <<>>]
    /\ result = [outs |-> <<>>, stdout |-> <<>>]
    /\ tokens = <<>>
    /\ min_freq = 0
    /\ use_special_tokens = FALSE
    /\ vocab = NoVocab

\* net.hybridize()
Hybridize ==
    /\ pc = "net_ready"
    /\ frame' = [frame EXCEPT !.active = TRUE, !.cached_graph = <<>>]
    /\ UNCHANGED <<pc, tokens, min_freq, use_special_tokens, vocab, arg, result>>

\* net(x) before hybridize(): hybrid_forward runs on the arrays
CallImperative ==
    /\ pc = "net_ready"
    /\ Len(result.outs) < MaxCalls
    /\ ~frame.active
    /\ LET r == Forward("ndarray", frame.x, frame.self)
       IN  result' = [outs |-> Append(result.outs, [mode |-> "imperative", value |-> r.out]),
                      stdout |-> result.stdout \o r.printed]
    /\ UNCHANGED <<pc, tokens, min_freq, use_special_tokens, vocab, arg, frame>>

\* the first net(x) after hybridize(): hybrid_forward runs on the symbol data,
\* the graph is kept and executed on x
CallCompile ==
    /\ pc = "net_ready"
    /\ Len(result.outs) < MaxCalls
    /\ frame.active /\ frame.cached_graph = <<>>
    /\ LET r == Forward("symbol", <<Var("data")>>, frame.self)
       IN  /\ frame' = [frame EXCEPT !.cached_graph = r.out]
           /\ result' = [outs |-> Append(result.outs,
                                    [mode |-> "compiled_first",
                                     value |-> Execute(r.out, frame.self, frame.x)]),
                         stdout |-> result.stdout \o r.printed]
    /\ UNCHANGED <<pc, tokens, min_freq, use_special_tokens, vocab, arg>>

\* a later net(x): the kept graph is executed, no Python code runs
CallCached ==
    /\ pc = "net_ready"
    /\ Len(result.outs) < MaxCalls
    /\ frame.active /\ frame.cached_graph # <<>>
    /\ result' = [outs |-> Append(result.outs,
                             [mode |-> "compiled",
                              value |-> Execute(frame.cached_graph, frame.self, frame.x)]),
                  stdout |-> result.stdout]
    /\ UNCHANGED <<pc, tokens, min_freq, use_special_tokens, vocab, arg, frame>>

NextHybrid ==
    \/ Hybridize
    \/ CallImperative
    \/ CallCompile
    \/ CallCached

SpecHybrid == InitHybrid /\ [][NextHybrid]_vars

MaxTasks == 3

\* z = x * y + 2: the task computing variable v from the variables deps
IssueStmt(v, deps) == [op |-> "issue", var |-> v, deps |-> deps]

\* z.wait_to_read()
WaitStmt(v) == [op |-> "wait", var |-> v, deps |-> {}]

\* a program: n operations, each on variables assigned before it, and one
\* wait_to_read on the variable w placed after statement k
InsertWait(ops, w, k) ==
    [i \in 1..(Len(ops) + 1) |->
        IF i <= k THEN ops[i] ELSE IF i = k + 1 THEN WaitStmt(w) ELSE ops[i - 1]]

Programs ==
    UNION {{InsertWait([v \in 1..n |-> IssueStmt(v, d[v])], w, k) :
                d \in {e \in [1..n -> SUBSET (1..n)] : \A v \in 1..n : e[v] \subseteq 1..(v - 1)},
                w \in 1..n, k \in 1..n} : n \in 1..MaxTasks}

\* a variable can be waited for once it is assigned
WellFormed(prog) ==
    \A i \in 1..Len(prog) :
        prog[i].op = "wait" => \E j \in 1..(i - 1) :
            prog[j].op = "issue" /\ prog[j].var = prog[i].var

Idle == [queue |-> <<>>, running |-> {}, computed |-> {}]

\* Mutant: the variable counts as available as soon as a backend thread has
\* picked its task up.
IsStarted(backend, v) == v \in backend.running \cup backend.computed

\* the variable has been computed
IsComputed(backend, v) == v \in backend.computed

DepsOf(prog, v) == (CHOOSE st \in Range(prog) : st.op = "issue" /\ st.var = v).deps

InitAsync ==
    /\ pc = "python"
    /\ arg \in {prog \in Programs : WellFormed(prog)}
    /\ frame = [fn |-> "frontend", prog |-> arg, ip |-> 1]
    /\ result = Idle
    /\ tokens = <<>>
    /\ min_freq = 0
    /\ use_special_tokens = FALSE
    /\ vocab = NoVocab

\* the frontend executes an operation: the task goes to the backend queue
Issue ==
    /\ pc = "python"
    /\ frame.ip <= Len(frame.prog)
    /\ frame.prog[frame.ip].op = "issue"
    /\ result' = [result EXCEPT !.queue = Append(@, frame.prog[frame.ip].var)]
    /\ frame' = [frame EXCEPT !.ip = @ + 1]
    /\ UNCHANGED <<pc, tokens, min_freq, use_special_tokens, vocab, arg>>

\* the frontend calls z.wait_to_read(): return to Python is blocked
WaitToRead ==
    /\ pc = "python"
    /\ frame.ip <= Len(frame.prog)
    /\ frame.prog[frame.ip].op = "wait"
    /\ pc' = "blocked"
    /\ UNCHANGED <<tokens, min_freq, use_special_tokens, vocab, arg, result, frame>>

\* z.wait_to_read() returns
WaitReturn ==
    /\ pc = "blocked"
    /\ IsComputed(result, frame.prog[frame.ip].var)
    /\ pc' = "python"
    /\ frame' = [frame EXCEPT !.ip = @ + 1]
    /\ UNCHANGED <<tokens, min_freq, use_special_tokens, vocab, arg, result>>

\* a backend thread collects a queued task whose inputs are computed
BackendStart ==
    \E q \in 1..Len(result.queue) :
        /\ DepsOf(frame.prog, result.queue[q]) \subseteq result.computed
        /\ result' = [result EXCEPT !.queue = RemoveAt(@, q),
                                    !.running = @ \cup {result.queue[q]}]
        /\ UNCHANGED <<pc, tokens, min_freq, use_special_tokens, vocab, arg, frame>>

\* a backend thread finishes its task
BackendFinish ==
    \E v \in result.running :
        /\ result' = [result EXCEPT !.running = @ \ {v},
                                    !.computed = @ \cup {v}]
        /\ UNCHANGED <<pc, tokens, min_freq, use_special_tokens, vocab, arg, frame>>

NextAsync ==
    \/ Issue
    \/ WaitToRead
    \/ WaitReturn
    \/ BackendStart
    \/ BackendFinish

SpecAsync == InitAsync /\ [][NextAsync]_vars

\* the tasks not yet computed: queued or being executed
Pending == Range(result.queue) \cup result.running

\* the variables v is computed from, directly or through other variables
RECURSIVE DependsOn(_, _)
DependsOn(prog, v) ==
    DepsOf(prog, v) \cup UNION {DependsOn(prog, u) : u \in DepsOf(prog, v)}

\* the statement the frontend has just left
Left == frame.prog[frame.ip]

SplitAt(flat, k) ==
    <<[i \in 1..k |-> flat[i]], [i \in 1..(Len(flat) - k) |-> flat[k + i]]>>

\* the list with the tokens at m and m + 1 exchanged
SwapAt(flat, m) ==
    [i \in 1..Len(flat) |->
        IF i = m THEN flat[m + 1] ELSE IF i = m + 1 THEN flat[m] ELSE flat[i]]

\* the corpora one step away from c: two neighbouring tokens exchanged, or
\* the sentence boundary moved.  Every order of the tokens and every split
\* into two sentences is reached from c by such steps, through corpora of
\* the same size.
Rearrangements(c) ==
    LET flat == Flatten(c)
        n == Len(flat)
    IN  {SplitAt(SwapAt(flat, m), Len(c[1])) : m \in 1..(n - 1)}
        \cup {SplitAt(flat, k) : k \in 0..n}

\* vocab = Vocab(tokens) on a rearranged corpus; arg and result keep the
\* corpus and the Vocab before
Reconstruct ==
    /\ pc = "vocab_built"
    /\ \E c \in Rearrangements(tokens) :
          /\ tokens' = c
          /\ vocab' = NewVocab(c, min_freq, use_special_tokens)
    /\ arg' = [kind |-> "corpus", v |-> tokens]
    /\ result' = [kind |-> "vocab", v |-> vocab]
    /\ pc' = "vocab_rebuilt"
    /\ UNCHANGED <<min_freq, use_special_tokens, frame>>

NextRebuild ==
    \/ Construct
    \/ Reconstruct

SpecRebuild == InitVocab /\ [][NextRebuild]_vars

\* the number of occurrences of t in corpus c
FreqIn(c, t) ==
    SumSeq([l \in 1..Len(c) |-> Cardinality({p \in 1..Len(c[l]) : c[l][p] = t})])

\* the Vocab built from the rearranged corpus has the idx_to_token and the
\* token_to_idx of the Vocab built before
SameVocab ==
    (/\ pc = "vocab_rebuilt"
     /\ \A t \in CorpusTokens : FreqIn(arg.v, t) = Freq(t))
    => /\ vocab.idx_to_token = result.v.idx_to_token
       /\ vocab.token_to_idx = result.v.token_to_idx

\* C14 as stated: among all indexed tokens of equal frequency the smaller
\* token string has the smaller index, and corpora with the same tokens and
\* counts give identical idx_to_token and token_to_idx.
C14_Original ==
    /\ pc \in {"vocab_built", "vocab_rebuilt"} =>
          \A a \in CorpusTokens : \A b \in CorpusTokens :
              (/\ Retained(a) /\ Retained(b)
               /\ Freq(a) = Freq(b) /\ StrRank(a) < StrRank(b))
              => vocab.token_to_idx[a] < vocab.token_to_idx[b]
    /\ SameVocab

\* C14 (amended): Vocab construction is deterministic in the multiset of
\* corpus tokens: among retained tokens of equal frequency that are not
\* special tokens indices ascend with the token string, and a Vocab built
\* from a corpus with the same tokens and counts, in any sentence or token
\* order, has the same idx_to_token and token_to_idx.
C14_MultisetDeterministic ==
    /\ pc \in {"vocab_built", "vocab_rebuilt"} =>
          \A a \in CorpusTokens : \A b \in CorpusTokens :
              (/\ Retained(a) /\ Retained(b) /\ ~IsSpecial(a) /\ ~IsSpecial(b)
               /\ Freq(a) = Freq(b) /\ StrRank(a) < StrRank(b))
              => vocab.token_to_idx[a] < vocab.token_to_idx[b]
    /\ SameVocab

\* "b" first occurs before "a" and ties with it; rebuilt from the corpus with
\* the two tokens exchanged
C14_Witness ==
    /\ pc = "vocab_rebuilt"
    /\ arg.kind = "corpus"
    /\ arg.v = <<<<"b">>, <<"a">>>>
    /\ tokens = <<<<"a">>, <<"b">>>>
    /\ min_freq = 0
    /\ ~use_special_tokens
    /\ result.v.idx_to_token = <<"<unk>", "a", "b">>
    /\ vocab.idx_to_token = <<"<unk>", "a", "b">>
    /\ vocab.token_to_idx["a"] = 1 /\ vocab.token_to_idx["b"] = 2

====
